---- MODULE Spec2Model ----
(***************************************************************************)
(* The agent loop of gmail_mcp_client.py and mac_keynote_client.py.        *)
(*                                                                         *)
(* A text is a sequence of symbols.  A symbol is one character (" ", ":",  *)
(* "|", "-", ".", a digit, the backtick written BT) or an indivisible run  *)
(* of letters ("Hi", "FUNCTION_CALL", "send_email").  strip, startswith,   *)
(* endswith, slicing and split are computed on these sequences as Python   *)
(* computes them on strings.                                               *)
(***************************************************************************)
EXTENDS Integers, Sequences, FiniteSets, TLC

VARIABLES
    client,                \* "gmail" or "keynote": which client script runs
    pc,                    \* where main() is: "start", "loop" (the loop head),
                           \* "gen" (awaiting generate_with_timeout), "tool"
                           \* (awaiting session.call_tool), "finally", "done"
    tools,                 \* tools_result.tools
    iteration,             \* the global iteration
    iteration_history,     \* the global iteration_history
    last_response,         \* the global last_response
    current_prompt_parts,  \* the prompt of the pass
    response_text,         \* the cleaned text of the last completion
    pending_call,          \* the call_tool in flight: func_name, arguments
    passes,                \* loop passes begun
    gens,                  \* calls of generate_with_timeout
    calls,                 \* calls of session.call_tool, in order
    terminal_state,        \* how the loop ended: "None" while it has not,
                           \* "Succeeded" (break after FINAL_ANSWER), "Failed"
                           \* (break after an error), "BudgetExhausted"
    emitted,               \* the history the finally block logs
    event,                 \* the last step and what the model or the tool
                           \* host handed it
    in_flight,             \* the awaited operations that have not completed
    fn_in,                 \* the argument of a function applied on its own
    fn_out,                \* its result
    runs                   \* calls of main() in this process

vars == <<client, pc, tools, iteration, iteration_history, last_response,
          current_prompt_parts, response_text, pending_call, passes, gens,
          calls, terminal_state, emitted, event, in_flight, fn_in, fn_out,
          runs>>

max_iterations == 5

ResultCap == 200

Min(a, b) == IF a < b THEN a ELSE b

----------------------------------------------------------------------------
(* str methods *)

IsSpace(c) == c = " "

RECURSIVE LStrip(_)
LStrip(s) == IF s # <<>> /\ IsSpace(Head(s)) THEN LStrip(Tail(s)) ELSE s

RECURSIVE RStrip(_)
RStrip(s) ==
    IF s # <<>> /\ IsSpace(s[Len(s)]) THEN RStrip(SubSeq(s, 1, Len(s) - 1)) ELSE s

Strip(s) == RStrip(LStrip(s))

StartsWith(s, p) == Len(s) >= Len(p) /\ SubSeq(s, 1, Len(p)) = p

EndsWith(s, p) == Len(s) >= Len(p) /\ SubSeq(s, Len(s) - Len(p) + 1, Len(s)) = p

\* s[a:-b] for a, b > 0
Slice(s, a, b) == SubSeq(s, a + 1, Len(s) - b)

\* index of the first occurrence of symbol c in s, 0 when there is none
RECURSIVE IndexOf(_, _, _)
IndexOf(s, c, i) ==
    IF i > Len(s) THEN 0 ELSE IF s[i] = c THEN i ELSE IndexOf(s, c, i + 1)

\* s.split(c, 1)[1] for a text that holds c
AfterFirst(s, c) == SubSeq(s, IndexOf(s, c, 1) + 1, Len(s))

\* s.split(c)
RECURSIVE Split(_, _)
Split(s, c) ==
    LET i == IndexOf(s, c, 1)
    IN  IF i = 0 THEN <<s>>
        ELSE <<SubSeq(s, 1, i - 1)>> \o Split(SubSeq(s, i + 1, Len(s)), c)

\* the backtick character
BT == "BT"

Fence3 == <<BT, BT, BT>>

Fence1 == <<BT>>

FunctionCallPrefix == <<"FUNCTION_CALL", ":">>

FinalAnswerPrefix == <<"FINAL_ANSWER", ":">>

\* "Clean potential markdown": the two tests run one after the other
StripTriple(t) ==
    IF StartsWith(t, Fence3) /\ EndsWith(t, Fence3) THEN Strip(Slice(t, 3, 3)) ELSE t

StripSingle(t) ==
    IF StartsWith(t, Fence1) /\ EndsWith(t, Fence1) THEN Strip(Slice(t, 1, 1)) ELSE t

\* only the triple-backtick test
CleanResponse_TripleOnly(t) == StripTriple(t)

CleanResponse(t) == StripSingle(StripTriple(t))

\* the keyword alone, without its colon
Classify_NoColon(t) ==
    IF StartsWith(t, <<"FUNCTION_CALL">>) THEN "FunctionCall"
    ELSE IF StartsWith(t, <<"FINAL_ANSWER">>) THEN "FinalAnswer"
    ELSE "Malformed"

Classify(t) ==
    IF StartsWith(t, FunctionCallPrefix) THEN "FunctionCall"
    ELSE IF StartsWith(t, FinalAnswerPrefix) THEN "FinalAnswer"
    ELSE "Malformed"

\* the text after the last colon is split
parts_LastColon(t) ==
    LET segs == Split(t, ":") IN Split(segs[Len(segs)], "|")

parts(t) == Split(AfterFirst(t, ":"), "|")

func_name(t) == Strip(parts(t)[1])

params(t) == [i \in 1..(Len(parts(t)) - 1) |-> Strip(parts(t)[i + 1])]

final_message_Untrimmed(t) == AfterFirst(t, ":")

final_message(t) == Strip(AfterFirst(t, ":"))

----------------------------------------------------------------------------
(* values, int() and float() *)

StrVal(s) == [t |-> "str", s |-> s, n |-> 0]

IntVal(n) == [t |-> "int", s |-> <<>>, n |-> n]

\* a float a/10^k: n is the digits read as an integer (signed), s holds k
FloatVal(n, k) == [t |-> "float", s |-> <<k>>, n |-> n]

Digits == {"0", "1", "2", "3", "4", "5", "6", "7", "8", "9"}

DigitValue ==
    ("0" :> 0) @@ ("1" :> 1) @@ ("2" :> 2) @@ ("3" :> 3) @@ ("4" :> 4) @@
    ("5" :> 5) @@ ("6" :> 6) @@ ("7" :> 7) @@ ("8" :> 8) @@ ("9" :> 9)

AllDigits(s) == s # <<>> /\ \A i \in 1..Len(s) : s[i] \in Digits

RECURSIVE Base10(_)
Base10(s) ==
    IF s = <<>> THEN 0
    ELSE 10 * Base10(SubSeq(s, 1, Len(s) - 1)) + DigitValue[s[Len(s)]]

HasSign(s) == s # <<>> /\ Head(s) \in {"-", "+"}

Unsigned(s) == IF HasSign(s) THEN Tail(s) ELSE s

Sign(s) == IF s # <<>> /\ Head(s) = "-" THEN -1 ELSE 1

\* int(value_str) does not raise ValueError
IsInt(s) == AllDigits(Unsigned(s))

ParseInt(s) == Sign(s) * Base10(Unsigned(s))

\* float(value_str) does not raise ValueError: digits with at most one "."
IsFloat(s) ==
    LET u == Unsigned(s)
        d == IndexOf(u, ".", 1)
    IN  IF d = 0 THEN AllDigits(u)
        ELSE LET a == SubSeq(u, 1, d - 1)
                 b == SubSeq(u, d + 1, Len(u))
             IN  /\ a \o b # <<>>
                 /\ \A i \in 1..Len(a) : a[i] \in Digits
                 /\ \A i \in 1..Len(b) : b[i] \in Digits

RECURSIVE DropZeros(_)
DropZeros(s) ==
    IF s # <<>> /\ s[Len(s)] = "0" THEN DropZeros(SubSeq(s, 1, Len(s) - 1)) ELSE s

ParseFloat(s) ==
    LET u == Unsigned(s)
        d == IndexOf(u, ".", 1)
        a == IF d = 0 THEN u ELSE SubSeq(u, 1, d - 1)
        b == IF d = 0 THEN <<>> ELSE DropZeros(SubSeq(u, d + 1, Len(u)))
    IN  FloatVal(Sign(s) * Base10(a \o b), Len(b))

----------------------------------------------------------------------------
(* the tool catalogs the two tool hosts expose *)

Prop(n, t) == [name |-> n, type |-> t]

Tool(n, props) == [name |-> <<n>>, properties |-> props]

GmailTools ==
    << Tool("send_email",
            <<Prop("to", "string"), Prop("subject", "string"), Prop("body", "string")>>),
       Tool("list_emails", <<Prop("query", "string"), Prop("max_results", "integer")>>),
       Tool("get_email", <<Prop("message_id", "string"), Prop("body_format", "string")>>) >>

KeynoteTools ==
    << Tool("open_keynote", <<>>),
       Tool("create_blank_keynote_slide", <<>>),
       Tool("draw_keynote_rectangle",
            <<Prop("x1", "integer"), Prop("y1", "integer"),
              Prop("width", "integer"), Prop("height", "integer")>>),
       Tool("add_text_in_keynote",
            <<Prop("text", "string"), Prop("x", "integer"), Prop("y", "integer"),
              Prop("width", "integer"), Prop("height", "integer")>>),
       Tool("add", <<Prop("a", "integer"), Prop("b", "integer")>>) >>

Catalog(c) == IF c = "gmail" THEN GmailTools ELSE KeynoteTools

----------------------------------------------------------------------------
(* resolving and binding a FUNCTION_CALL *)

NoErr == [kind |-> "none", name |-> <<>>, param |-> "", value |-> <<>>,
          type |-> "", expected |-> 0, got |-> 0, text |-> <<>>]

UnknownTool(fn) == [NoErr EXCEPT !.kind = "UnknownTool", !.name = fn]

SendEmailCount(got) ==
    [NoErr EXCEPT !.kind = "SendEmailCount", !.name = <<"send_email">>,
                  !.expected = 3, !.got = got]

CountMismatch(fn, expected, got) ==
    [NoErr EXCEPT !.kind = "CountMismatch", !.name = fn,
                  !.expected = expected, !.got = got]

CouldNotConvert(p, v, t) ==
    [NoErr EXCEPT !.kind = "CouldNotConvert", !.param = p, !.value = v, !.type = t]

\* an exception raised by the model call or by the tool call, with its text
Raised(kind, text) == [NoErr EXCEPT !.kind = kind, !.text = text]

\* next((t for t in tools if t.name == func_name), None): an index, 0 for None
RECURSIVE FindFrom(_, _, _)
FindFrom(ts, fn, i) ==
    IF i > Len(ts) THEN 0
    ELSE IF ts[i].name = fn THEN i
    ELSE FindFrom(ts, fn, i + 1)

\* next((...), tools[0])
FindTool_Fallback(ts, fn) == IF FindFrom(ts, fn, 1) = 0 THEN 1 ELSE FindFrom(ts, fn, 1)

FindTool(ts, fn) == FindFrom(ts, fn, 1)

Arg(k, v) == [k |-> k, v |-> v]

Bound(args) == [ok |-> TRUE, arguments |-> args, err |-> NoErr]

Failure(e) == [ok |-> FALSE, arguments |-> <<>>, err |-> e]

Converts(type, v) ==
    IF type = "integer" THEN IsInt(v)
    ELSE IF type = "number" THEN IsFloat(v)
    ELSE TRUE

Convert(type, v) ==
    IF type = "integer" THEN IntVal(ParseInt(v))
    ELSE IF type = "number" THEN ParseFloat(v)
    ELSE StrVal(v)

\* the first parameter whose token does not convert, 0 when all convert
RECURSIVE FirstBad(_, _, _)
FirstBad(props, ps, i) ==
    IF i > Len(props) THEN 0
    ELSE IF ~Converts(props[i].type, ps[i]) THEN i
    ELSE FirstBad(props, ps, i + 1)

\* mac_keynote_client.py: count check, then typed positional binding
BindKeynote(tool, fn, ps) ==
    LET props == tool.properties
        bad == FirstBad(props, ps, 1)
    IN  IF Len(ps) # Len(props) THEN Failure(CountMismatch(fn, Len(props), Len(ps)))
        ELSE IF bad # 0
             THEN Failure(CouldNotConvert(props[bad].name, ps[bad], props[bad].type))
        ELSE Bound([i \in 1..Len(props) |->
                       Arg(props[i].name, Convert(props[i].type, ps[i]))])

\* the hard-coded keys of send_email in another order
BindGmail_Misordered(tool, fn, ps) ==
    IF fn = <<"send_email">> /\ Len(ps) # 3 THEN Failure(SendEmailCount(Len(ps)))
    ELSE IF fn = <<"send_email">>
         THEN Bound(<<Arg("to", StrVal(ps[1])), Arg("subject", StrVal(ps[3])),
                      Arg("body", StrVal(ps[2]))>>)
    ELSE Bound([i \in 1..Min(Len(ps), Len(tool.properties)) |->
                   Arg(tool.properties[i].name, StrVal(ps[i]))])

\* gmail_mcp_client.py: send_email is special-cased, any other tool gets
\* the "basic assignment" of the first tokens to the first parameters
BindGmail(tool, fn, ps) ==
    LET expected_params == tool.properties
        cut == IF Len(ps) > Len(expected_params)
               THEN SubSeq(ps, 1, Len(expected_params)) ELSE ps
    IN  IF fn = <<"send_email">> /\ Len(ps) # 3 THEN Failure(SendEmailCount(Len(ps)))
        ELSE IF fn = <<"send_email">>
             THEN Bound(<<Arg("to", StrVal(ps[1])), Arg("subject", StrVal(ps[2])),
                          Arg("body", StrVal(ps[3]))>>)
        ELSE Bound([i \in 1..Min(Len(cut), Len(expected_params)) |->
                       Arg(expected_params[i].name, StrVal(cut[i]))])

\* from the tool lookup to the arguments handed to session.call_tool
Bind(c, ts, fn, ps) ==
    LET i == FindTool(ts, fn)
    IN  IF i = 0 THEN Failure(UnknownTool(fn))
        ELSE IF c = "gmail" THEN BindGmail(ts[i], fn, ps)
        ELSE BindKeynote(ts[i], fn, ps)

----------------------------------------------------------------------------
(* the model boundary and the tool host boundary *)

\* a response object: shape "text" has .text; "parts" has no .text but
\* candidates[0].content.parts[0].text; "noparts" has candidates without
\* parts; "other" has neither
Response(shape, text) == [shape |-> shape, text |-> text]

NoTextParts == <<"Error", ":", " ", "No", " ", "text", " ", "parts">>

UnexpectedFormat == <<"Error", ":", " ", "Unexpected", " ", "format">>

NoTextAttribute == <<"no", " ", "attribute", " ", "text">>

\* the text taken from the response, or the exception reading it raises
ExtractText(c, r) ==
    IF c = "gmail"
    THEN [ok |-> TRUE, err |-> NoErr,
          text |-> IF r.shape \in {"text", "parts"} THEN Strip(r.text)
                   ELSE IF r.shape = "noparts" THEN NoTextParts
                   ELSE UnexpectedFormat]
    ELSE IF r.shape = "text" THEN [ok |-> TRUE, err |-> NoErr, text |-> Strip(r.text)]
    ELSE [ok |-> FALSE, err |-> Raised("AttributeError", NoTextAttribute), text |-> <<>>]

TextItem(t) == [type |-> "text", text |-> t]

ImageItem == [type |-> "image", text |-> <<>>]

NoTextSentinel(c) ==
    IF c = "gmail"
    THEN <<"Tool", " ", "executed", ",", " ", "no", " ", "standard", " ", "text",
           " ", "result", ".">>
    ELSE <<"Tool", " ", "executed", " ", "but", " ", "returned", " ", "no", " ",
           "standard", " ", "text", " ", "content", ".">>

\* result.content[0].text when the first item has a text, else the sentinel
iteration_result(c, content) ==
    IF content # <<>> /\ content[1].type = "text" THEN content[1].text
    ELSE NoTextSentinel(c)

----------------------------------------------------------------------------
(* history lines and prompt parts *)

NL == "NL"

DigitChars == <<"0", "1", "2", "3", "4", "5", "6", "7", "8", "9">>

\* str(n) of an integer n >= 0
RECURSIVE Str(_)
Str(n) ==
    IF n < 10 THEN <<DigitChars[n + 1]>>
    ELSE Str(n \div 10) \o <<DigitChars[(n % 10) + 1]>>

\* sep.join(texts)
RECURSIVE Join(_, _)
Join(texts, sep) ==
    IF texts = <<>> THEN <<>>
    ELSE IF Len(texts) = 1 THEN texts[1]
    ELSE texts[1] \o sep \o Join(Tail(texts), sep)

\* a value inside the f-string {arguments}; a float is written by its
\* digits and its scale
Repr(v) ==
    IF v.t = "str" THEN <<"'">> \o v.s \o <<"'">>
    ELSE IF v.t = "int"
         THEN (IF v.n < 0 THEN <<"-">> ELSE <<>>) \o Str(IF v.n < 0 THEN -v.n ELSE v.n)
    ELSE (IF v.n < 0 THEN <<"-">> ELSE <<>>) \o Str(IF v.n < 0 THEN -v.n ELSE v.n)
            \o <<"e-">> \o Str(v.s[1])

\* the dict {arguments} as the f-string writes it
ReprArgs(args) ==
    <<"{">> \o Join([i \in 1..Len(args) |->
                        <<"'", args[i].k, "'", ":", " ">> \o Repr(args[i].v)],
                    <<",", " ">>) \o <<"}">>

\* str(e); the list of parameter names of a count mismatch is one symbol
ErrText(e) ==
    IF e.kind = "UnknownTool"
    THEN <<"Unknown tool", " ", "'">> \o e.name \o <<"'", " ", "requested by LLM.">>
    ELSE IF e.kind = "SendEmailCount"
    THEN <<"Incorrect number of parameters for send_email.", " ",
           "Expected 3 (to, subject, body), got", " ">> \o Str(e.got) \o <<".">>
    ELSE IF e.kind = "CountMismatch"
    THEN <<"Parameter count mismatch for tool", " ", "'">> \o e.name
            \o <<"'", ".", " ", "Expected", " ">> \o Str(e.expected)
            \o <<" ", "(expected_params)", ",", " ", "got", " ">> \o Str(e.got) \o <<".">>
    ELSE IF e.kind = "CouldNotConvert"
    THEN <<"Could not convert parameter", " ", "'", e.param, "'", " ", "(value:", " ", "'">>
            \o e.value \o <<"'", ")", " ", "to expected type", " ", "'", e.type, "'", ".">>
    ELSE e.text

\* f"Iteration {n}: "
Prefix(label) == <<"Iteration", " ">> \o Str(label) \o <<":", " ">>

Entry(label, kind) ==
    [label |-> label, kind |-> kind, name |-> <<>>, arguments |-> <<>>,
     shown |-> <<>>, err |-> NoErr, line |-> <<>>]

Ellipsis == <<".", ".", ".">>

\* the result as the history line shows it: iteration_result[:200] + "..."
\* in gmail_mcp_client.py, iteration_result in mac_keynote_client.py
Shown(c, res) ==
    IF c = "gmail" THEN SubSeq(res, 1, Min(ResultCap, Len(res))) \o Ellipsis ELSE res

\* "Iteration n: Called f(...). Result: ..." as each client writes it
CalledEntry(c, label, fn, args, res) ==
    IF c = "gmail"
    THEN [Entry(label, "Called") EXCEPT
            !.name = fn,
            !.shown = Shown(c, res),
            !.line = Prefix(label) \o <<"Called", " ">> \o fn
                        \o <<"(...)", ".", " ", "Result", ":", " ">> \o Shown(c, res)]
    ELSE [Entry(label, "Called") EXCEPT
            !.name = fn,
            !.arguments = args,
            !.shown = Shown(c, res),
            !.line = Prefix(label) \o <<"Called", " ">> \o fn
                        \o <<"(">> \o ReprArgs(args)
                        \o <<")", ".", " ", "Result", ":", " ">> \o Shown(c, res)]

ClientErrorEntry(label, text, e) ==
    [Entry(label, "ClientError") EXCEPT
        !.shown = text,
        !.err = e,
        !.line = Prefix(label) \o <<"Client Error processing", " ", "'">> \o text
                    \o <<"'", ":", " ">> \o ErrText(e)]

LLMFailedEntry_NoText(label, e) == Entry(label, "LLMFailed")

LLMFailedEntry(label, e) ==
    [Entry(label, "LLMFailed") EXCEPT
        !.err = e,
        !.line = Prefix(label) \o <<"Failed to get LLM response", ":", " ">> \o ErrText(e)]

FinalAnswerEntry(label, msg) ==
    [Entry(label, "FinalAnswer") EXCEPT
        !.shown = msg,
        !.line = Prefix(label) \o <<"Received", " ", "FINAL_ANSWER", ":", " ">> \o msg]

UnexpectedEntry_Short(label, text) ==
    [Entry(label, "Unexpected") EXCEPT
        !.line = Prefix(label) \o <<"Unexpected LLM response format">>]

UnexpectedEntry(label, text) ==
    [Entry(label, "Unexpected") EXCEPT
        !.shown = text,
        !.line = Prefix(label) \o <<"Unexpected LLM response format", ":", " ", "'">>
                    \o text \o <<"'">>]

\* the line is labelled as a pass after the last one
MaxIterationsEntry_NextLabel(label) ==
    [Entry(label + 1, "MaxIterations") EXCEPT
        !.line = Prefix(label + 1) \o <<"Max iterations reached.">>]

MaxIterationsEntry(label) ==
    [Entry(label, "MaxIterations") EXCEPT
        !.line = Prefix(label) \o <<"Max iterations reached.">>]

\* one element of current_prompt_parts: its text, and the history entries
\* it was written from
Part(text, entries) == [text |-> text, entries |-> entries]

system_prompt == <<"system_prompt">>

\* f"\nUser Query: {user_query}"
UserQueryPart == <<NL, "User Query", ":", " ", "user_query">>

\* "\n".join(iteration_history)
history_str(history) == Join([i \in 1..Len(history) |-> history[i].line], <<NL>>)

\* the prompt before the loop, replaced in every pass
InitialPrompt == <<Part(system_prompt, <<>>), Part(UserQueryPart, <<>>)>>

BuildPrompt_TwoParts(history) ==
    IF history # <<>>
    THEN <<Part(system_prompt, <<>>), Part(UserQueryPart, <<>>),
           Part(<<NL, "History", ":", NL>> \o history_str(history)
                   \o <<NL, NL, "What is the next step?">>, history)>>
    ELSE InitialPrompt

\* current_prompt_parts as the loop body builds it
BuildPrompt(history) ==
    IF history # <<>>
    THEN <<Part(system_prompt, <<>>), Part(UserQueryPart, <<>>),
           Part(<<NL, "History", ":", NL>> \o history_str(history)
                   \o <<NL, NL, "What is the next step?">>, history)>>
    ELSE <<Part(system_prompt, <<>>), Part(UserQueryPart, <<>>),
           Part(<<NL, "What is the first step?">>, <<>>)>>

----------------------------------------------------------------------------
(* inputs *)

FC(rest) == <<"FUNCTION_CALL", ":", " ">> \o rest

Completions ==
    { <<" ", "FINAL_ANSWER", ":", " ", "Email", " ", "sent", " ">>,
      <<BT, "FINAL_ANSWER", ":", "Done", BT>>,
      <<"Hello">>,
      FC(<<"send_email", "|", "a@b.com", "|", "Hi", "|", "Body", " ", "text">>),
      FC(<<"send_email", "|", "a@b.com", "|", "Hi">>),
      FC(<<"Send_Email", "|", "a@b.com", "|", "Hi", "|", "Body">>),
      FC(<<"list_emails", "|", "inbox">>),
      FC(<<"list_emails", "|", "inbox", "|", "7", "|", "extra">>),
      FC(<<"list_emails", "|", "inbox", "|", "abc">>),
      FC(<<"open_keynote">>),
      FC(<<"draw_keynote_rectangle", "|", "1", "0", "|", "1", "0", "|", "4", "0",
           "|", "2", "5">>),
      FC(<<"draw_keynote_rectangle", "|", "1", "0", "|", "1", "0", "|",
           "not_a_number", "|", "2", "5">>),
      FC(<<"draw_keynote_rectangle", "|", "1", "0", "|", "1", "0", "|", "4", "0">>),
      FC(<<"add_text_in_keynote", "|", "Hi", "|", "1", "|", "2", "|", "3", "|", "4">>) }

Responses ==
    {Response("text", c) : c \in Completions} \cup {Response("other", <<>>)}

\* str(e) of an exception of the model call; a timeout has an empty text
GenerationErrors == {Raised("TimeoutError", <<>>), Raised("Exception", <<"quota">>)}

ToolContents == { <<TextItem(<<"Message", " ", "ID", ":", " ", "7">>)>> }

\* completions and tool results of the second specification: a result that
\* reports an error, and one of ResultCap + 1 symbols
ResponsesR ==
    { Response("text", <<"FINAL_ANSWER", ":", " ", "Done">>),
      Response("text", <<"Hello">>),
      Response("text", FC(<<"send_email", "|", "a@b.com", "|", "Hi", "|", "Body">>)),
      Response("text", FC(<<"open_keynote">>)) }

LongResult == [i \in 1..(ResultCap + 1) |-> IF i > ResultCap THEN "z" ELSE "x"]

\* as LongResult up to ResultCap, another symbol after it
LongResult2 == [i \in 1..(ResultCap + 1) |-> IF i > ResultCap THEN "y" ELSE "x"]

ToolContentsR ==
    { <<TextItem(<<"Message", " ", "ID", ":", " ", "7">>)>>,
      <<TextItem(<<"Error", ":", " ", "invalid", " ", "recipient">>)>>,
      <<TextItem(LongResult)>>,
      <<TextItem(LongResult2)>>,
      <<ImageItem, TextItem(<<"caption">>)>>,
      <<ImageItem>>,
      <<>> }

ToolErrors == {Raised("Exception", <<"Connection", " ", "closed">>)}

----------------------------------------------------------------------------
(* main() *)

NoResponse == [set |-> FALSE, text |-> <<>>]

NoCall == [name |-> <<>>, arguments |-> <<>>]

\* what the last step was and what the model or the tool host handed it
Event(kind) ==
    [kind |-> kind, shape |-> "", text |-> <<>>, content |-> <<>>, err |-> NoErr]

Init ==
    /\ client \in {"gmail", "keynote"}
    /\ pc = "start"
    /\ tools = <<>>
    /\ iteration = 0
    /\ iteration_history = <<>>
    /\ last_response = NoResponse
    /\ current_prompt_parts = <<>>
    /\ response_text = <<>>
    /\ pending_call = NoCall
    /\ passes = 0
    /\ gens = 0
    /\ calls = <<>>
    /\ terminal_state = "None"
    /\ emitted = <<>>
    /\ event = Event("none")
    /\ in_flight = <<>>
    /\ runs = 1
    /\ fn_in = <<>>
    /\ fn_out = <<>>

\* await op(...): main() is suspended on op
Suspend(fl, op) == Append(fl, op)

\* the operation is left running and main() goes on
Resume_Leak(fl, op) == fl

\* the await returns or raises: op has completed (asyncio.wait_for cancels
\* a generation that timed out)
Resume(fl, op) ==
    LET i == IndexOf(fl, op, 1)
    IN  IF i = 0 THEN fl ELSE SubSeq(fl, 1, i - 1) \o SubSeq(fl, i + 1, Len(fl))

LoopGuard_OffByOne(it) == it <= max_iterations

\* while iteration < max_iterations
LoopGuard(it) == it < max_iterations

NextIteration_Skip(it) == it + 2

\* iteration += 1
NextIteration(it) == it + 1

AfterIncrement_NoEntry(history, it) == history

\* if iteration >= max_iterations: append "Max iterations reached."
AfterIncrement(history, it) ==
    IF it >= max_iterations THEN Append(history, MaxIterationsEntry(it)) ELSE history

\* reset_state(), the connection, list_tools() and the prompt template
Connect ==
    /\ pc = "start"
    /\ iteration' = 0
    /\ iteration_history' = <<>>
    /\ last_response' = NoResponse
    /\ tools' = Catalog(client)
    /\ current_prompt_parts' = InitialPrompt
    /\ pc' = "loop"
    /\ event' = Event("connected")
    /\ in_flight' = in_flight
    /\ UNCHANGED <<runs, fn_in, fn_out, client, response_text, pending_call, passes, gens, calls,
                   terminal_state, emitted>>

\* the set-up raises: the outer except, then finally
ConnectFails ==
    /\ pc = "start"
    /\ iteration' = 0
    /\ iteration_history' = <<>>
    /\ last_response' = NoResponse
    /\ pc' = "finally"
    /\ event' = Event("connect_raised")
    /\ in_flight' = in_flight
    /\ UNCHANGED <<runs, fn_in, fn_out, client, tools, current_prompt_parts, response_text, pending_call,
                   passes, gens, calls, terminal_state, emitted>>

\* the prompt also carries the end of the stored last_response
BeginPass_ReadsLast ==
    /\ pc = "loop"
    /\ LoopGuard(iteration)
    /\ current_prompt_parts' =
           IF last_response.set /\ last_response.text # <<>>
           THEN BuildPrompt(iteration_history)
                    \o <<Part(<<last_response.text[Len(last_response.text)]>>, <<>>)>>
           ELSE BuildPrompt(iteration_history)
    /\ passes' = passes + 1
    /\ gens' = gens + 1
    /\ pc' = "gen"
    /\ event' = Event("gen_called")
    /\ in_flight' = Suspend(in_flight, "generation")
    /\ UNCHANGED <<runs, fn_in, fn_out, client, tools, iteration, iteration_history, last_response,
                   response_text, pending_call, calls, terminal_state, emitted>>

\* the loop head and the body up to the await of generate_with_timeout
BeginPass ==
    /\ pc = "loop"
    /\ LoopGuard(iteration)
    /\ current_prompt_parts' = BuildPrompt(iteration_history)
    /\ passes' = passes + 1
    /\ gens' = gens + 1
    /\ pc' = "gen"
    /\ event' = Event("gen_called")
    /\ in_flight' = Suspend(in_flight, "generation")
    /\ UNCHANGED <<runs, fn_in, fn_out, client, tools, iteration, iteration_history, last_response,
                   response_text, pending_call, calls, terminal_state, emitted>>

\* the loop condition is false
ExitLoop ==
    /\ pc = "loop"
    /\ ~LoopGuard(iteration)
    /\ pc' = "finally"
    /\ event' = Event("loop_exit")
    /\ in_flight' = in_flight
    /\ UNCHANGED <<runs, fn_in, fn_out, client, tools, iteration, iteration_history, last_response,
                   current_prompt_parts, response_text, pending_call, passes, gens,
                   calls, terminal_state, emitted>>

\* except around the generation: one line, break
\* the failure line replaces the history
LLMFailed_Clear(e) ==
    /\ iteration_history' = <<LLMFailedEntry(iteration + 1, e)>>
    /\ iteration' = iteration
    /\ terminal_state' = "Failed"
    /\ pc' = "finally"

\* except around the generation: one line, break
LLMFailed(e) ==
    /\ iteration_history' =
           Append(iteration_history, LLMFailedEntry(iteration + 1, e))
    /\ iteration' = iteration
    /\ terminal_state' = "Failed"
    /\ pc' = "finally"

\* the line is written but the loop goes on
ClientError_Retry(text, e) ==
    /\ iteration' = iteration + 1
    /\ iteration_history' =
           Append(iteration_history, ClientErrorEntry(iteration + 1, text, e))
    /\ terminal_state' = terminal_state
    /\ pc' = "loop"

\* except around the function call: one line, break
ClientError(text, e) ==
    /\ iteration_history' =
           Append(iteration_history, ClientErrorEntry(iteration + 1, text, e))
    /\ iteration' = iteration
    /\ terminal_state' = "Failed"
    /\ pc' = "finally"

\* the line is written and the pass ends without a break
FinalAnswer_NoBreak(t) ==
    /\ iteration' = iteration + 1
    /\ iteration_history' =
           AfterIncrement(Append(iteration_history,
                                 FinalAnswerEntry(iteration + 1, final_message(t))),
                          iteration + 1)
    /\ terminal_state' =
           IF iteration + 1 >= max_iterations THEN "BudgetExhausted" ELSE terminal_state
    /\ pc' = "loop"

\* the FINAL_ANSWER branch: one line, break
FinalAnswer(t) ==
    /\ iteration_history' =
           Append(iteration_history, FinalAnswerEntry(iteration + 1, final_message(t)))
    /\ iteration' = iteration
    /\ terminal_state' = "Succeeded"
    /\ pc' = "finally"

\* the end of a pass that did not break
EndPass(history) ==
    /\ iteration' = NextIteration(iteration)
    /\ iteration_history' = AfterIncrement(history, iteration')
    /\ terminal_state' =
           IF iteration' >= max_iterations THEN "BudgetExhausted" ELSE terminal_state
    /\ pc' = "loop"

\* "error" in iteration_result.lower()
ReportsError(res) == \E i \in 1..Len(res) : res[i] \in {"error", "Error", "ERROR"}

\* a result that reports an error stops the loop
AfterToolResult_Break(history, res) ==
    IF ReportsError(res)
    THEN /\ iteration' = iteration
         /\ iteration_history' = history
         /\ terminal_state' = "Failed"
         /\ pc' = "finally"
    ELSE EndPass(history)

\* after the history line of a call: a result that reports an error is
\* logged and nothing else, the pass ends as any other
AfterToolResult(history, res) == EndPass(history)

\* generate_with_timeout raises (a timeout or an error of the model)
GenRaise ==
    /\ pc = "gen"
    /\ \E e \in GenerationErrors :
          /\ LLMFailed(e)
          /\ event' = [Event("gen_raised") EXCEPT !.err = e]
    /\ in_flight' = Resume(in_flight, "generation")
    /\ UNCHANGED <<runs, fn_in, fn_out, client, tools, last_response, current_prompt_parts, response_text,
                   pending_call, passes, gens, calls, emitted>>

\* generate_with_timeout returns: the pass up to its next await or its end
GenReturnFrom(Rs) ==
    /\ pc = "gen"
    /\ \E r \in Rs :
          LET x == ExtractText(client, r)
              t == CleanResponse(x.text)
              b == Bind(client, tools, func_name(t), params(t))
          IN  /\ event' = [Event("gen_returned") EXCEPT !.shape = r.shape, !.text = r.text]
              /\ IF ~x.ok
                 THEN /\ LLMFailed(x.err)
                      /\ in_flight' = Resume(in_flight, "generation")
                      /\ UNCHANGED <<response_text, pending_call, calls>>
                 ELSE IF Classify(t) = "FunctionCall"
                 THEN /\ response_text' = t
                      /\ IF b.ok
                         THEN /\ pending_call' =
                                    [name |-> func_name(t), arguments |-> b.arguments]
                              /\ in_flight' =
                                    Suspend(Resume(in_flight, "generation"), "call_tool")
                              /\ calls' = Append(calls, pending_call')
                              /\ pc' = "tool"
                              /\ UNCHANGED <<iteration, iteration_history,
                                             terminal_state>>
                         ELSE /\ ClientError(t, b.err)
                              /\ in_flight' = Resume(in_flight, "generation")
                              /\ UNCHANGED <<pending_call, calls>>
                 ELSE IF Classify(t) = "FinalAnswer"
                 THEN /\ response_text' = t
                      /\ FinalAnswer(t)
                      /\ in_flight' = Resume(in_flight, "generation")
                      /\ UNCHANGED <<pending_call, calls>>
                 ELSE /\ response_text' = t
                      /\ EndPass(Append(iteration_history,
                                        UnexpectedEntry(iteration + 1, t)))
                      /\ in_flight' = Resume(in_flight, "generation")
                      /\ UNCHANGED <<pending_call, calls>>
    /\ UNCHANGED <<runs, fn_in, fn_out, client, tools, last_response, current_prompt_parts, passes, gens,
                   emitted>>

\* session.call_tool returns: the history line, last_response, the pass ends
ToolReturnFrom(Cs) ==
    /\ pc = "tool"
    /\ \E content \in Cs :
          LET res == iteration_result(client, content)
          IN  /\ AfterToolResult(Append(iteration_history,
                                       CalledEntry(client, iteration + 1,
                                                   pending_call.name,
                                                   pending_call.arguments, res)),
                                res)
              /\ last_response' = [set |-> TRUE, text |-> res]
              /\ event' = [Event("tool_returned") EXCEPT
                                !.text = res, !.content = content]
    /\ pending_call' = NoCall
    /\ in_flight' = Resume(in_flight, "call_tool")
    /\ UNCHANGED <<runs, fn_in, fn_out, client, tools, current_prompt_parts, response_text, passes, gens,
                   calls, emitted>>

GenReturn == GenReturnFrom(Responses)

ToolReturn == ToolReturnFrom(ToolContents)

\* session.call_tool raises
ToolRaise ==
    /\ pc = "tool"
    /\ \E e \in ToolErrors :
          /\ ClientError(response_text, e)
          /\ event' = [Event("tool_raised") EXCEPT !.err = e]
    /\ pending_call' = NoCall
    /\ in_flight' = Resume(in_flight, "call_tool")
    /\ UNCHANGED <<runs, fn_in, fn_out, client, tools, last_response, current_prompt_parts, response_text,
                   passes, gens, calls, emitted>>

\* reset_state() first: the history that is logged is the emptied one
Finally_ResetFirst ==
    /\ pc = "finally"
    /\ emitted' = <<>>
    /\ iteration' = 0
    /\ iteration_history' = <<>>
    /\ last_response' = NoResponse
    /\ pc' = "done"
    /\ event' = Event("finished")
    /\ in_flight' = in_flight
    /\ UNCHANGED <<runs, fn_in, fn_out, client, tools, current_prompt_parts, response_text, pending_call,
                   passes, gens, calls, terminal_state>>

\* finally: the history is logged and the globals are left as they are
Finally_NoReset ==
    /\ pc = "finally"
    /\ emitted' = iteration_history
    /\ pc' = "done"
    /\ event' = Event("finished")
    /\ in_flight' = in_flight
    /\ UNCHANGED <<runs, fn_in, fn_out, client, tools, iteration, iteration_history,
                   last_response, current_prompt_parts, response_text, pending_call,
                   passes, gens, calls, terminal_state>>

\* finally: the history is logged, then reset_state()
Finally ==
    /\ pc = "finally"
    /\ emitted' = iteration_history
    /\ iteration' = 0
    /\ iteration_history' = <<>>
    /\ last_response' = NoResponse
    /\ pc' = "done"
    /\ event' = Event("finished")
    /\ in_flight' = in_flight
    /\ UNCHANGED <<runs, fn_in, fn_out, client, tools, current_prompt_parts, response_text, pending_call,
                   passes, gens, calls, terminal_state>>

Next ==
    \/ Connect
    \/ ConnectFails
    \/ BeginPass
    \/ ExitLoop
    \/ GenRaise
    \/ GenReturn
    \/ ToolReturn
    \/ ToolRaise
    \/ Finally

Spec == Init /\ [][Next]_vars

\* the same program with tool results of more kinds and fewer completions
GenReturnR == GenReturnFrom(ResponsesR)

ToolReturnR == ToolReturnFrom(ToolContentsR)

NextR ==
    \/ Connect
    \/ ConnectFails
    \/ BeginPass
    \/ ExitLoop
    \/ GenRaise
    \/ GenReturnR
    \/ ToolReturnR
    \/ ToolRaise
    \/ Finally

SpecR == Init /\ [][NextR]_vars

\* asyncio runs main() to its end, and every await returns or raises
FairSpec == Spec /\ WF_vars(Next)

\* the runs of main() one process makes
MaxRuns == 2

\* main() is called again in the same process: the module's globals are
\* what the run before left, the locals of main() are new
Rerun ==
    /\ pc = "done"
    /\ runs < MaxRuns
    /\ runs' = runs + 1
    /\ pc' = "start"
    /\ tools' = <<>>
    /\ current_prompt_parts' = <<>>
    /\ response_text' = <<>>
    /\ pending_call' = NoCall
    /\ passes' = 0
    /\ gens' = 0
    /\ calls' = <<>>
    /\ terminal_state' = "None"
    /\ emitted' = <<>>
    /\ event' = Event("none")
    /\ in_flight' = in_flight
    /\ UNCHANGED <<fn_in, fn_out, client, iteration, iteration_history, last_response>>

NextRerun ==
    \/ Connect
    \/ ConnectFails
    \/ BeginPass
    \/ ExitLoop
    \/ GenRaise
    \/ GenReturn
    \/ ToolReturn
    \/ ToolRaise
    \/ Finally
    \/ Rerun

SpecRerun == Init /\ [][NextRerun]_vars

----------------------------------------------------------------------------
(* the tool list in the system prompt, on its own *)

MaxTools == 3

\* an attribute of a tool descriptor: set to a value, set to None, or absent
Attr(v) == [st |-> "set", v |-> v]

AttrNone == [st |-> "none", v |-> <<>>]

AttrAbsent == [st |-> "absent", v |-> <<>>]

Descriptor(name, inputSchema, description) ==
    [name |-> name, inputSchema |-> inputSchema, description |-> description]

\* descriptors a tool host can hand back: whole ones, one without a
\* parameter schema, one without a name, one whose description is None, one
\* with an untyped parameter
Descriptors ==
    { Descriptor(Attr(<<"list_emails">>),
                 Attr(<<Prop("query", "string"), Prop("max_results", "integer")>>),
                 Attr(<<" ", "List", " ", "emails", " ">>)),
      Descriptor(Attr(<<"open_keynote">>), Attr(<<>>), Attr(<<"Open", " ", "Keynote">>)),
      Descriptor(Attr(<<"broken">>), AttrNone, Attr(<<"No", " ", "schema">>)),
      Descriptor(AttrAbsent, AttrNone, AttrAbsent),
      Descriptor(Attr(<<"add">>), Attr(<<Prop("a", "")>>), AttrNone),
      Descriptor(AttrAbsent, Attr(<<Prop("a", "integer")>>), AttrAbsent) }

\* f"{i}." instead of f"{i+1}."
Numbered_ZeroBased(i) == Str(i) \o <<".", " ">>

\* f"{i+1}. " for the index i of enumerate(tools)
Numbered(i) == Str(i + 1) \o <<".", " ">>

\* the try body raises: tool.inputSchema.get on None, or .strip() on a
\* description that is None (gmail_mcp_client.py only)
RenderRaises(c, tool) ==
    \/ tool.inputSchema.st # "set"
    \/ (c = "gmail" /\ tool.description.st = "none")

\* f"{p_name}: {p_info.get('type', 'unknown')}"
param_detail(p) == <<p.name, ":", " ", IF p.type = "" THEN "unknown" ELSE p.type>>

\* ', '.join(param_details) if param_details else 'no parameters'
params_str(props) ==
    IF props = <<>> THEN <<"no parameters">>
    ELSE Join([j \in 1..Len(props) |-> param_detail(props[j])], <<",", " ">>)

\* getattr(tool, 'description', 'No description available'), stripped by
\* gmail_mcp_client.py
desc(c, tool) ==
    IF tool.description.st = "absent" THEN <<"No description available">>
    ELSE IF tool.description.st = "none" THEN <<"None">>
    ELSE IF c = "gmail" THEN Strip(tool.description.v)
    ELSE tool.description.v

\* getattr(tool, 'name', default)
NameOr(tool, default) ==
    IF tool.name.st = "absent" THEN default
    ELSE IF tool.name.st = "none" THEN <<"None">>
    ELSE tool.name.v

\* the line of tool number i (from 0) of the list
RenderTool(c, i, tool) ==
    IF RenderRaises(c, tool)
    THEN Numbered(i) \o <<"Error processing tool", " ">> \o NameOr(tool, <<"unknown">>)
    ELSE Numbered(i) \o NameOr(tool, <<"tool_">> \o Str(i))
            \o <<"(">> \o params_str(tool.inputSchema.v) \o <<")", " ", "-", " ">>
            \o desc(c, tool)

\* index of the first descriptor whose rendering raises, 0 for none
RECURSIVE FirstRaising(_, _, _)
FirstRaising(c, ts, i) ==
    IF i > Len(ts) THEN 0
    ELSE IF RenderRaises(c, ts[i]) THEN i
    ELSE FirstRaising(c, ts, i + 1)

\* no try around the body: the list ends before the first descriptor that
\* raises
tools_description_Abort(c, ts) ==
    LET k == FirstRaising(c, ts, 1)
    IN  [i \in 1..(IF k = 0 THEN Len(ts) ELSE k - 1) |-> RenderTool(c, i - 1, ts[i])]

\* the list built by the for loop over enumerate(tools)
tools_description(c, ts) == [i \in 1..Len(ts) |-> RenderTool(c, i - 1, ts[i])]

\* "\n".join(tools_description)
tools_description_str(c, ts) == Join(tools_description(c, ts), <<NL>>)

NotRendered == [times |-> 0, lines |-> <<>>, str |-> <<>>, before |-> <<>>]

InitRender ==
    /\ client \in {"gmail", "keynote"}
    /\ pc = "render"
    /\ tools = <<>>
    /\ iteration = 0
    /\ iteration_history = <<>>
    /\ last_response = NoResponse
    /\ current_prompt_parts = <<>>
    /\ response_text = <<>>
    /\ pending_call = NoCall
    /\ passes = 0
    /\ gens = 0
    /\ calls = <<>>
    /\ terminal_state = "None"
    /\ emitted = <<>>
    /\ event = Event("none")
    /\ in_flight = <<>>
    /\ runs = 1
    /\ fn_in \in UNION {[1..k -> Descriptors] : k \in 0..MaxTools}
    /\ fn_out = NotRendered

\* main() up to the loop: the tool list is rendered into the system prompt
\* and the loop is entered; a further run of main() on the same list
\* renders it again
RenderCatalog ==
    /\ pc \in {"render", "rendered"}
    /\ fn_out.times < 2
    /\ fn_out' = [times |-> fn_out.times + 1,
                  lines |-> tools_description(client, fn_in),
                  str |-> tools_description_str(client, fn_in),
                  before |-> fn_out.str]
    /\ pc' = "rendered"
    /\ UNCHANGED <<runs, client, tools, iteration, iteration_history, last_response,
                   current_prompt_parts, response_text, pending_call, passes, gens,
                   calls, terminal_state, emitted, event, in_flight, fn_in>>

NextRender == RenderCatalog

SpecRender == InitRender /\ [][NextRender]_vars

----------------------------------------------------------------------------
(* the payload of a FUNCTION_CALL, on its own *)

MaxFields == 3

\* what the model means one field of the payload to be: plain, padded with
\* spaces, empty, holding a colon, holding a "|"
FieldTexts ==
    { <<"x">>, <<" ", "x", " ">>, <<"x", " ", "y">>, <<>>, <<" ">>,
      <<"a", ":", "b">>, <<"a", "|", "b">>, <<"|">> }

\* the completion the model writes for a tool name and arguments
FunctionCallText(fields) == <<"FUNCTION_CALL", ":", " ">> \o Join(fields, <<"|">>)

NotSplit == [done |-> FALSE, func_name |-> <<>>, params |-> <<>>]

InitSplit ==
    /\ client \in {"gmail", "keynote"}
    /\ pc = "split"
    /\ tools = <<>>
    /\ iteration = 0
    /\ iteration_history = <<>>
    /\ last_response = NoResponse
    /\ current_prompt_parts = <<>>
    /\ response_text = <<>>
    /\ pending_call = NoCall
    /\ passes = 0
    /\ gens = 0
    /\ calls = <<>>
    /\ terminal_state = "None"
    /\ emitted = <<>>
    /\ event = Event("none")
    /\ in_flight = <<>>
    /\ runs = 1
    /\ fn_in \in UNION {[1..k -> FieldTexts] : k \in 1..MaxFields}
    /\ fn_out = NotSplit

\* the head of the FUNCTION_CALL branch: response_text, func_name, params
SplitPayload ==
    /\ pc = "split"
    /\ ~fn_out.done
    /\ response_text' = CleanResponse(Strip(FunctionCallText(fn_in)))
    /\ Classify(response_text') = "FunctionCall"
    /\ fn_out' = [done |-> TRUE,
                  func_name |-> func_name(response_text'),
                  params |-> params(response_text')]
    /\ UNCHANGED <<runs, client, pc, tools, iteration, iteration_history, last_response,
                   current_prompt_parts, pending_call, passes, gens, calls,
                   terminal_state, emitted, event, in_flight, fn_in>>

NextSplit == SplitPayload

SpecSplit == InitSplit /\ [][NextSplit]_vars

----------------------------------------------------------------------------
(* the binding of one call, on its own *)

MaxTokens == 4

Tokens == { <<"7">>, <<"abc">>, <<"-", "1", "2">> }

\* the names a completion can ask for: every tool of the catalog, and one
\* that is not in it
NamesFor(c) == {Catalog(c)[i].name : i \in 1..Len(Catalog(c))} \cup {<<"no_such_tool">>}

\* binding uses up the descriptor: the first declared parameter of the
\* tool is dropped from the catalog
ToolsAfterBind_Consumes(ts, fn) ==
    LET i == FindTool(ts, fn)
    IN  IF i = 0 \/ ts[i].properties = <<>> THEN ts
        ELSE [ts EXCEPT ![i].properties = Tail(ts[i].properties)]

\* the catalog after a binding: expected_params is a new list and params
\* is rebound, the descriptors are only read
ToolsAfterBind(ts, fn) == ts

NotBound ==
    [times |-> 0, result |-> Failure(NoErr), before |-> Failure(NoErr)]

InitBind ==
    /\ client \in {"gmail", "keynote"}
    /\ pc = "bind"
    /\ tools = Catalog(client)
    /\ iteration = 0
    /\ iteration_history = <<>>
    /\ last_response = NoResponse
    /\ current_prompt_parts = <<>>
    /\ response_text = <<>>
    /\ pending_call = NoCall
    /\ passes = 0
    /\ gens = 0
    /\ calls = <<>>
    /\ terminal_state = "None"
    /\ emitted = <<>>
    /\ event = Event("none")
    /\ in_flight = <<>>
    /\ runs = 1
    /\ fn_in \in {[name |-> n, params |-> ps] :
                     n \in NamesFor(client),
                     ps \in UNION {[1..k -> Tokens] : k \in 0..MaxTokens}}
    /\ fn_out = NotBound

\* from the tool lookup to the arguments, for the same name and tokens a
\* first and a second time
BindCall ==
    /\ pc = "bind"
    /\ fn_out.times < 2
    /\ fn_out' = [times |-> fn_out.times + 1,
                  result |-> Bind(client, tools, fn_in.name, fn_in.params),
                  before |-> fn_out.result]
    /\ tools' = ToolsAfterBind(tools, fn_in.name)
    /\ UNCHANGED <<runs, client, pc, iteration, iteration_history, last_response,
                   current_prompt_parts, response_text, pending_call, passes, gens,
                   calls, terminal_state, emitted, event, in_flight, fn_in>>

NextBind == BindCall

SpecBind == InitBind /\ [][NextBind]_vars

----------------------------------------------------------------------------
(* the parsing of one completion, on its own *)

MaxLen == 3

MaxLayers == 2

Alphabet == {BT, " ", ":", "FUNCTION_CALL", "FINAL_ANSWER", "x"}

\* every text of at most n symbols of Alphabet
Texts(n) == UNION {[1..k -> Alphabet] : k \in 0..n}

NotParsed == [parsed |-> FALSE, text |-> <<>>, clean |-> <<>>, class |-> ""]

\* response.text.strip(), the two fence tests, the startswith tests
Parse(raw) ==
    LET t == CleanResponse(Strip(raw))
    IN  [parsed |-> TRUE, text |-> raw, clean |-> t, class |-> Classify(t)]

InitParse ==
    /\ client \in {"gmail", "keynote"}
    /\ pc = "parse"
    /\ tools = <<>>
    /\ iteration = 0
    /\ iteration_history = <<>>
    /\ last_response = NoResponse
    /\ current_prompt_parts = <<>>
    /\ response_text = <<>>
    /\ pending_call = NoCall
    /\ passes = 0
    /\ gens = 0
    /\ calls = <<>>
    /\ terminal_state = "None"
    /\ emitted = <<>>
    /\ event = Event("none")
    /\ in_flight = <<>>
    /\ runs = 1
    /\ fn_in \in {[text |-> t, layers |-> 0] : t \in Texts(MaxLen)}
    /\ fn_out = NotParsed

\* the model puts its completion in a code fence
WrapFence ==
    /\ pc = "parse"
    /\ fn_in.layers < MaxLayers
    /\ \E f \in {Fence1, Fence3} :
          fn_in' = [text |-> f \o fn_in.text \o f, layers |-> fn_in.layers + 1]
    /\ fn_out' = NotParsed
    /\ UNCHANGED <<runs, client, pc, tools, iteration, iteration_history, last_response,
                   current_prompt_parts, response_text, pending_call, passes, gens,
                   calls, terminal_state, emitted, event, in_flight>>

\* the completion is stripped, cleaned and classified
ParseResponse ==
    /\ pc = "parse"
    /\ ~fn_out.parsed
    /\ fn_out' = Parse(fn_in.text)
    /\ response_text' = fn_out'.clean
    /\ UNCHANGED <<runs, client, pc, tools, iteration, iteration_history, last_response,
                   current_prompt_parts, pending_call, passes, gens, calls,
                   terminal_state, emitted, event, in_flight, fn_in>>

NextParse ==
    \/ WrapFence
    \/ ParseResponse

SpecParse == InitParse /\ [][NextParse]_vars

----------------------------------------------------------------------------
(* the claims *)

TerminalStates == {"Succeeded", "Failed", "BudgetExhausted"}

Last(h) == h[Len(h)]

BreakKinds == {"FinalAnswer", "LLMFailed", "ClientError"}

\* the loop has been entered and left
LoopStopped == pc = "finally" /\ passes > 0

\* C1: once the loop has begun a pass, the run eventually ends with the
\* loop stopped in one of Succeeded, Failed, BudgetExhausted; the terminal
\* state, once set, never changes; and no run makes more than
\* max_iterations passes.
C1_Terminates ==
    /\ (passes > 0) ~> (pc = "done" /\ terminal_state \in TerminalStates)
    /\ [](passes <= max_iterations)
    /\ [][terminal_state # "None" => terminal_state' = terminal_state]_vars

C1_Witness ==
    pc = "done" /\ terminal_state = "BudgetExhausted" /\ passes = max_iterations

\* the loop stops exactly when a terminal state is set or the budget is used
C2_StopsIff ==
    /\ (pc \in {"gen", "tool"} =>
            terminal_state = "None" /\ iteration < max_iterations)
    /\ (LoopStopped => terminal_state # "None" \/ iteration = max_iterations)
    /\ (pc = "loop" /\ (terminal_state # "None" \/ iteration = max_iterations)
            => ~ENABLED BeginPass)

\* C2 as stated: every pass, the one that sets a terminal state included,
\* adds one to iteration, so at the loop head and after the loop iteration
\* is the number of passes made; and the loop stops iff a terminal state is
\* set or iteration = max_iterations.
C2_Original ==
    /\ (pc \in {"loop", "finally"} => iteration = passes)
    /\ C2_StopsIff

\* C2 amended: a pass that ends Running or BudgetExhausted adds one to
\* iteration, a pass that ends Succeeded or Failed (a break) leaves it
\* unchanged; and the loop stops iff a terminal state is set or
\* iteration = max_iterations.
C2_Amended ==
    /\ (pc \in {"loop", "finally"} =>
            iteration = passes - (IF terminal_state \in {"Succeeded", "Failed"}
                                  THEN 1 ELSE 0))
    /\ (pc \in {"gen", "tool"} => iteration = passes - 1)
    /\ C2_StopsIff

C2_Witness ==
    pc = "finally" /\ terminal_state = "Succeeded" /\ passes = 3 /\ iteration = 2

NoBreakEntry(h) == \A i \in 1..Len(h) : h[i].kind \notin BreakKinds

\* C3 as stated: a run without FINAL_ANSWER and without a generation,
\* binding or transport failure ends BudgetExhausted with exactly
\* max_iterations = 5 history entries.
C3_Original ==
    LoopStopped /\ NoBreakEntry(iteration_history) =>
        terminal_state = "BudgetExhausted" /\ Len(iteration_history) = max_iterations

\* C3 amended: such a run ends BudgetExhausted with max_iterations + 1 = 6
\* history entries: one per pass, then the max-iterations entry.
C3_Amended ==
    LoopStopped /\ NoBreakEntry(iteration_history) =>
        /\ terminal_state = "BudgetExhausted"
        /\ Len(iteration_history) = max_iterations + 1
        /\ Last(iteration_history).kind = "MaxIterations"
        /\ \A i \in 1..max_iterations :
              iteration_history[i].kind \in {"Called", "Unexpected"}

C3_Witness ==
    /\ LoopStopped
    /\ NoBreakEntry(iteration_history)
    /\ Len(iteration_history) = 6
    /\ \E i \in 1..5 : iteration_history[i].kind = "Called"

Trimmed(t) == t = <<>> \/ (~IsSpace(t[1]) /\ ~IsSpace(t[Len(t)]))

\* the completion of this step, as the parser sees it
Completion(e) == CleanResponse(Strip(e.text))

\* C4: a step in which the completion is classified FINAL_ANSWER sets
\* Succeeded, leaves the loop and appends exactly one entry, which carries
\* the text after the first colon with no space around it; from Succeeded
\* on there is no generation and no tool invocation.
C4_FinalAnswer ==
    /\ [][event'.kind = "gen_returned" /\ pc = "gen"
            /\ Classify(Completion(event')) = "FinalAnswer"
          => /\ terminal_state' = "Succeeded"
             /\ pc' = "finally"
             /\ Len(iteration_history') = Len(iteration_history) + 1
             /\ SubSeq(iteration_history', 1, Len(iteration_history)) = iteration_history
             /\ Last(iteration_history').kind = "FinalAnswer"
             /\ Trimmed(Last(iteration_history').shown)
             /\ Last(iteration_history').shown
                  = Strip(AfterFirst(Completion(event'), ":"))]_vars
    /\ [][terminal_state = "Succeeded" => gens' = gens /\ calls' = calls]_vars

C4_Witness ==
    /\ pc = "finally"
    /\ terminal_state = "Succeeded"
    /\ Last(iteration_history).kind = "FinalAnswer"
    /\ Last(iteration_history).shown = <<"Email", " ", "sent">>
    /\ Len(iteration_history) = 2

\* the history grew by exactly one entry in this step
OneAppended == 
    /\ Len(iteration_history') = Len(iteration_history) + 1
    /\ SubSeq(iteration_history', 1, Len(iteration_history)) = iteration_history

\* C5: a step in which the generation call raises appends exactly one
\* entry, which carries the text of the exception, sets Failed and leaves
\* the loop without invoking the tool host; from Failed on there is no
\* further generation.
C5_GenerationFailure ==
    /\ [][event'.kind = "gen_raised" /\ pc = "gen"
          => /\ OneAppended
             /\ Last(iteration_history').kind = "LLMFailed"
             /\ Last(iteration_history').label = passes
             /\ Last(iteration_history').err = event'.err
             /\ terminal_state' = "Failed"
             /\ pc' = "finally"
             /\ calls' = calls
             /\ Len(calls) < passes]_vars
    /\ [][terminal_state = "Failed" => gens' = gens]_vars

C5_Witness ==
    /\ pc = "finally"
    /\ event.kind = "gen_raised"
    /\ passes = 2
    /\ Last(iteration_history).kind = "LLMFailed"
    /\ Last(iteration_history).err.text = <<"quota">>

\* C6: a step in which the tool call raises on pass k appends exactly one
\* entry, labelled k and carrying the text of the exception, sets Failed and
\* leaves the loop; no generation and no tool call follows, and the history
\* emitted at the end ends with that entry.
C6_TransportFailure ==
    /\ [][event'.kind = "tool_raised" /\ pc = "tool"
          => /\ OneAppended
             /\ Last(iteration_history').kind = "ClientError"
             /\ Last(iteration_history').label = passes
             /\ Last(iteration_history').err = event'.err
             /\ terminal_state' = "Failed"
             /\ pc' = "finally"
             /\ passes' = passes]_vars
    /\ [][event.kind = "tool_raised"
          => /\ gens' = gens
             /\ calls' = calls
             /\ passes' = passes
             /\ emitted' = iteration_history]_vars

C6_Witness ==
    /\ pc = "done"
    /\ terminal_state = "Failed"
    /\ passes = 3
    /\ Len(emitted) = 3
    /\ Last(emitted).kind = "ClientError"
    /\ Last(emitted).err.text = <<"Connection", " ", "closed">>

InCatalog(fn) == \E j \in 1..Len(tools) : tools[j].name = fn

\* the step's completion is a FUNCTION_CALL naming fn
Requests(e, fn) ==
    /\ e.kind = "gen_returned"
    /\ Classify(Completion(e)) = "FunctionCall"
    /\ fn = func_name(Completion(e))

\* C7: every tool invocation names a tool of the catalog; a FUNCTION_CALL
\* whose name equals no catalog name (as written, case included) invokes
\* nothing, appends one error entry and sets Failed.
C7_UnknownTool ==
    /\ [](\A i \in 1..Len(calls) : InCatalog(calls[i].name))
    /\ [][pc = "gen" /\ Requests(event', func_name(Completion(event')))
            /\ ~InCatalog(func_name(Completion(event')))
          => /\ calls' = calls
             /\ pc' = "finally"
             /\ terminal_state' = "Failed"
             /\ OneAppended
             /\ Last(iteration_history').kind = "ClientError"
             /\ Last(iteration_history').err.kind = "UnknownTool"]_vars

C7_Witness ==
    /\ client = "gmail"
    /\ pc = "finally"
    /\ terminal_state = "Failed"
    /\ Last(iteration_history).err.kind = "UnknownTool"
    /\ Last(iteration_history).err.name = <<"Send_Email">>

\* the declared parameters of the catalog tool named fn
Declared(fn) == tools[FindFrom(tools, fn, 1)].properties

\* C8: after a FUNCTION_CALL naming a catalog tool with a number of tokens
\* other than the tool's declared parameter count, the tool host has not
\* been invoked, the last entry is an arity error and the loop has Failed.
C8_Arity ==
    LET fn == func_name(Completion(event))
        ps == params(Completion(event))
    IN  Requests(event, fn) /\ InCatalog(fn) /\ Len(ps) # Len(Declared(fn))
        => /\ pc = "finally"
           /\ terminal_state = "Failed"
           /\ Last(iteration_history).kind = "ClientError"
           /\ Last(iteration_history).err.kind \in {"CountMismatch", "SendEmailCount"}

\* C9: while the tool host is invoked, the argument mapping has exactly the
\* tool's declared parameter names, in order, and the i-th one holds the
\* i-th token (as text, or converted to its declared type).
C9_PositionalBinding ==
    pc = "tool" =>
        LET props == Declared(pending_call.name)
            args == pending_call.arguments
            ps == params(response_text)
        IN  /\ Len(args) = Len(props)
            /\ Len(ps) >= Len(props)
            /\ \A i \in 1..Len(props) :
                  /\ args[i].k = props[i].name
                  /\ \/ args[i].v = StrVal(ps[i])
                     \/ /\ Converts(props[i].type, ps[i])
                        /\ args[i].v = Convert(props[i].type, ps[i])

Numeric == {"integer", "number"}

\* C10: while the tool host is invoked, every parameter declared integer or
\* number holds the parsed numeric value of its token; after a FUNCTION_CALL
\* with a token that does not convert, the tool host has not been invoked,
\* the loop has Failed and the last entry names the parameter, the raw
\* value and the declared type.
C10_Coercion ==
    /\ pc = "tool" =>
          LET props == Declared(pending_call.name)
              args == pending_call.arguments
              ps == params(response_text)
          IN  \A i \in 1..Len(args) :
                 props[i].type \in Numeric
                 => /\ Converts(props[i].type, ps[i])
                    /\ args[i].v.t \in {"int", "float"}
                    /\ args[i].v = Convert(props[i].type, ps[i])
    /\ LET fn == func_name(Completion(event))
           ps == params(Completion(event))
       IN  /\ Requests(event, fn) /\ InCatalog(fn) 
           /\ Len(ps) = Len(Declared(fn))
           /\ \E i \in 1..Len(ps) : ~Converts(Declared(fn)[i].type, ps[i])
           => /\ pc = "finally"
              /\ terminal_state = "Failed"
              /\ Last(iteration_history).err.kind = "CouldNotConvert"
              /\ \E i \in 1..Len(ps) :
                    /\ ~Converts(Declared(fn)[i].type, ps[i])
                    /\ Last(iteration_history).err.param = Declared(fn)[i].name
                    /\ Last(iteration_history).err.value = ps[i]
                    /\ Last(iteration_history).err.type = Declared(fn)[i].type

----------------------------------------------------------------------------
(* tool-reported errors, malformed completions, the history *)

\* sub occurs in s as a run of consecutive symbols
Contains(s, sub) ==
    \E i \in 0..(Len(s) - Len(sub)) : SubSeq(s, i + 1, i + Len(sub)) = sub

\* the pass that just ended left the loop running
StillRunning ==
    /\ pc' = "loop"
    /\ terminal_state' = IF iteration' < max_iterations THEN "None" ELSE "BudgetExhausted"

\* the step is a generation call whose prompt has a history section with
\* the line of entry i of the history
GeneratesWith(i) ==
    /\ pc' = "gen"
    /\ gens' = gens + 1
    /\ Len(current_prompt_parts') = 3
    /\ Contains(current_prompt_parts'[3].text, iteration_history[i].line)

\* C11: a step in which the tool returns a text that contains "error" (in
\* any case) appends an ordinary "Called" entry showing that text, leaves
\* the loop running (terminal state not Failed) and, when iteration is
\* still below max_iterations, the next step is a generation call whose
\* prompt contains the line of that entry.
C11_ToolReportedError ==
    /\ [][event'.kind = "tool_returned" /\ pc = "tool" /\ ReportsError(event'.text)
          => /\ iteration_history'[Len(iteration_history) + 1].kind = "Called"
             /\ Contains(iteration_history'[Len(iteration_history) + 1].line, event'.text)
             /\ SubSeq(iteration_history', 1, Len(iteration_history)) = iteration_history
             /\ StillRunning]_vars
    /\ [][/\ event.kind = "tool_returned"
          /\ ReportsError(event.text)
          /\ pc = "loop"
          /\ iteration < max_iterations
          => GeneratesWith(Len(iteration_history))]_vars

C11_Witness ==
    /\ pc = "gen"
    /\ passes = 2
    /\ terminal_state = "None"
    /\ Len(iteration_history) = 1
    /\ iteration_history[1].kind = "Called"
    /\ ReportsError(iteration_history[1].shown)
    /\ Contains(current_prompt_parts[3].text, <<"Error", ":", " ", "invalid", " ", "recipient">>)

\* every entry of h is the diagnostic of a malformed completion, but for a
\* max-iterations entry at the end
OnlyMalformed(h) ==
    \A i \in 1..Len(h) :
        \/ h[i].kind = "Unexpected"
        \/ (i = Len(h) /\ h[i].kind = "MaxIterations")

\* C12: a step in which the completion is classified Malformed appends one
\* diagnostic entry whose line holds the whole stripped completion, leaves
\* the loop running, and while iteration is below max_iterations the next
\* step is a generation call whose prompt contains that line; a run of
\* nothing but malformed completions is never Failed, and is
\* BudgetExhausted exactly when iteration has reached max_iterations.
C12_Malformed ==
    /\ [][/\ event'.kind = "gen_returned"
          /\ event'.shape = "text"
          /\ pc = "gen"
          /\ Classify(Completion(event')) = "Malformed"
          => /\ iteration_history'[Len(iteration_history) + 1].kind = "Unexpected"
             /\ iteration_history'[Len(iteration_history) + 1].shown = Completion(event')
             /\ Contains(iteration_history'[Len(iteration_history) + 1].line,
                         Completion(event'))
             /\ SubSeq(iteration_history', 1, Len(iteration_history)) = iteration_history
             /\ Len(iteration_history') = Len(iteration_history)
                    + (IF iteration' < max_iterations THEN 1 ELSE 2)
             /\ StillRunning]_vars
    /\ [][/\ event.kind = "gen_returned"
          /\ iteration_history # <<>>
          /\ Last(iteration_history).kind = "Unexpected"
          /\ pc = "loop"
          /\ iteration < max_iterations
          => GeneratesWith(Len(iteration_history))]_vars
    /\ [](pc \in {"loop", "gen", "finally"} /\ passes > 0 /\ OnlyMalformed(iteration_history)
            => terminal_state = IF iteration < max_iterations THEN "None"
                                ELSE "BudgetExhausted")

C12_Witness ==
    /\ pc = "finally"
    /\ terminal_state = "BudgetExhausted"
    /\ Len(iteration_history) = max_iterations + 1
    /\ OnlyMalformed(iteration_history)
    /\ iteration_history[1].shown = <<"Hello">>
    /\ Len(current_prompt_parts[3].entries) = max_iterations - 1
    /\ Contains(current_prompt_parts[3].text, iteration_history[4].line)

\* the terminal state that the last line of a history stands for
OutcomeOf(entry) ==
    IF entry.kind = "FinalAnswer" THEN "Succeeded"
    ELSE IF entry.kind \in {"LLMFailed", "ClientError"} THEN "Failed"
    ELSE IF entry.kind = "MaxIterations" THEN "BudgetExhausted"
    ELSE "None"

\* C13: when the loop has stopped the history is not empty and its last
\* entry is a FINAL_ANSWER entry exactly when the run Succeeded, a
\* generation-failure or client-error entry exactly when it Failed, and a
\* max-iterations entry exactly when it is BudgetExhausted; the step that
\* discards the session state emits the whole history first.
C13_OutcomeRecorded ==
    /\ [](LoopStopped
            => /\ iteration_history # <<>>
               /\ terminal_state \in TerminalStates
               /\ OutcomeOf(Last(iteration_history)) = terminal_state)
    /\ [][pc = "finally" /\ passes > 0
          => /\ emitted' = iteration_history
             /\ iteration_history' = <<>>
             /\ pc' = "done"]_vars
    /\ [](pc = "done" /\ passes > 0
            => /\ emitted # <<>>
               /\ OutcomeOf(Last(emitted)) = terminal_state)

C13_Witness ==
    /\ pc = "done"
    /\ terminal_state = "Failed"
    /\ Len(emitted) = 3
    /\ emitted[1].kind = "Called"
    /\ emitted[2].kind = "Unexpected"
    /\ emitted[3].kind = "ClientError"
    /\ iteration_history = <<>>

\* C14: in every step taken while the loop runs, the history after the
\* step is the history before it with zero or more entries added at the
\* end.
C14_AppendOnly ==
    [][(pc = "loop" \/ pc = "gen" \/ pc = "tool")
         => (/\ Len(iteration_history') >= Len(iteration_history)
             /\ SubSeq(iteration_history', 1, Len(iteration_history))
                    = iteration_history)]_vars

C14_Witness ==
    /\ pc = "finally"
    /\ Len(iteration_history) = 4
    /\ iteration_history[1].kind = "Unexpected"
    /\ iteration_history[2].kind = "Called"
    /\ iteration_history[3].kind = "Called"
    /\ iteration_history[4].kind = "LLMFailed"

\* C15: at most one awaited operation is outstanding at any time: none
\* between passes, the generation call alone while it is awaited, the tool
\* call alone while it is awaited; and a step that changes the history
\* leaves no operation outstanding.
C15_OneOutstanding ==
    /\ [](/\ Len(in_flight) <= 1
          /\ (pc = "gen" => in_flight = <<"generation">>)
          /\ (pc = "tool" => in_flight = <<"call_tool">>)
          /\ (pc \notin {"gen", "tool"} => in_flight = <<>>))
    /\ [][iteration_history' # iteration_history => in_flight' = <<>>]_vars

C15_Witness ==
    /\ pc = "tool"
    /\ in_flight = <<"call_tool">>
    /\ passes = 2
    /\ Len(iteration_history) = 1
    /\ Len(calls) = 2

----------------------------------------------------------------------------
(* the prompt *)

\* the texts of the parts of the prompt
PartTexts == [i \in 1..Len(current_prompt_parts) |-> current_prompt_parts[i].text]

\* the lines of the history, one text per entry
Lines == [i \in 1..Len(iteration_history) |-> iteration_history[i].line]

\* text ends with suffix
EndsWithText(text, suffix) ==
    /\ Len(text) >= Len(suffix)
    /\ SubSeq(text, Len(text) - Len(suffix) + 1, Len(text)) = suffix

\* C19 as stated: the prompt of the first pass has exactly the two parts
\* system_prompt and "User Query: " + request; the prompt of every later
\* pass has exactly three parts, the third holding the history lines
\* joined by newlines and ending with "What is the next step?".
C19_Original ==
    /\ (pc = "gen" /\ passes = 1
          => /\ Len(PartTexts) = 2
             /\ PartTexts[1] = system_prompt
             /\ EndsWithText(PartTexts[2], <<"User Query", ":", " ", "user_query">>))
    /\ (pc = "gen" /\ passes > 1
          => /\ Len(PartTexts) = 3
             /\ Contains(PartTexts[3], Join(Lines, <<NL>>))
             /\ EndsWithText(PartTexts[3], <<"What is the next step?">>))

\* C19 amended: the prompt of every pass has exactly three parts, the first
\* two being system_prompt and "\nUser Query: " + request; on the first
\* pass the third part is "\nWhat is the first step?", on every later pass
\* it is "\nHistory:\n", the history lines joined by newlines, and
\* "\n\nWhat is the next step?".
C19_Amended ==
    pc = "gen"
      => /\ Len(PartTexts) = 3
         /\ PartTexts[1] = <<"system_prompt">>
         /\ PartTexts[2] = <<NL, "User Query", ":", " ", "user_query">>
         /\ (passes = 1 <=> iteration_history = <<>>)
         /\ (passes = 1 => PartTexts[3] = <<NL, "What is the first step?">>)
         /\ (passes > 1
               => PartTexts[3] = <<NL, "History", ":", NL>> \o Join(Lines, <<NL>>)
                                    \o <<NL, NL, "What is the next step?">>)

C19_Witness ==
    /\ pc = "gen"
    /\ passes = 3
    /\ Len(PartTexts) = 3
    /\ Len(Lines) = 2
    /\ Contains(PartTexts[3], Lines[1] \o <<NL>> \o Lines[2])
    /\ iteration_history[2].kind = "Called"

\* C20: whatever the length of the text a tool returns, the history line
\* appended for the call contains that text whole, and so does the history
\* section of the prompt of the next pass.
C20_Verbatim ==
    /\ [][event'.kind = "tool_returned" /\ pc = "tool"
          => Contains(iteration_history'[Len(iteration_history) + 1].line, event'.text)]_vars
    /\ [][event.kind = "tool_returned" /\ pc = "loop" /\ pc' = "gen"
          => Contains(current_prompt_parts'[3].text, event.text)]_vars

----------------------------------------------------------------------------
(* parsing *)

\* C16: every completion text is classified, without an error, as exactly
\* one of FunctionCall, FinalAnswer and Malformed: FunctionCall exactly when
\* the cleaned text begins with FUNCTION_CALL:, FinalAnswer exactly when it
\* begins with FINAL_ANSWER:, Malformed exactly when it begins with
\* neither.
C16_TotalExclusive ==
    fn_out.parsed
      => LET fc == /\ Len(fn_out.clean) >= 2
                   /\ fn_out.clean[1] = "FUNCTION_CALL"
                   /\ fn_out.clean[2] = ":"
             fa == /\ Len(fn_out.clean) >= 2
                   /\ fn_out.clean[1] = "FINAL_ANSWER"
                   /\ fn_out.clean[2] = ":"
         IN  /\ fn_out.class \in {"FunctionCall", "FinalAnswer", "Malformed"}
             /\ ~(fc /\ fa)
             /\ (fn_out.class = "FunctionCall" <=> fc)
             /\ (fn_out.class = "FinalAnswer" <=> fa)
             /\ (fn_out.class = "Malformed" <=> ~fc /\ ~fa)

C16_Witness ==
    /\ fn_out.parsed
    /\ fn_in.layers = 1
    /\ fn_out.clean = <<"FINAL_ANSWER", "x">>
    /\ fn_out.class = "Malformed"

\* n backticks at the start of t and n at its end, 2n symbols at least
Fenced(t, n) ==
    /\ Len(t) >= 2 * n
    /\ \A i \in 1..n : t[i] = BT /\ t[Len(t) + 1 - i] = BT

\* t with one layer of fence taken off: the triple fence if it has one,
\* else the single fence if it has one
OneLayerOff(t) ==
    IF Fenced(t, 3) THEN Strip(SubSeq(t, 4, Len(t) - 3))
    ELSE IF Fenced(t, 1) THEN Strip(SubSeq(t, 2, Len(t) - 1))
    ELSE t

\* t is made of backticks only
OnlyFence(t) == \A i \in 1..Len(t) : t[i] = BT

\* C17: cleaning a trimmed completion takes off exactly one layer of fence
\* (triple or single backticks) and nothing more; a completion in two
\* nested layers keeps the inner one.
C17_OneLayer ==
    fn_out.parsed /\ ~OnlyFence(Strip(fn_out.text))
      => fn_out.clean = OneLayerOff(Strip(fn_out.text))

\* t put in one layer of fence f
Wrap(f, t) == f \o t \o f

\* C18 as stated: for every completion text t, t wrapped in one layer of
\* single or triple backticks is classified as t is.
C18_Original ==
    fn_out.parsed
      => \A f \in {Fence1, Fence3} : Parse(Wrap(f, fn_out.text)).class = fn_out.class

\* C18 amended: for every completion text t that, once trimmed, does not
\* both begin and end with a backtick, t wrapped in one layer of single or
\* triple backticks is classified as t is.
C18_Amended ==
    (/\ fn_out.parsed
     /\ ~(StartsWith(Strip(fn_out.text), Fence1) /\ EndsWith(Strip(fn_out.text), Fence1)))
      => \A f \in {Fence1, Fence3} : Parse(Wrap(f, fn_out.text)).class = fn_out.class

C18_Witness ==
    /\ fn_out.parsed
    /\ fn_out.text = <<" ", "FINAL_ANSWER", ":">>
    /\ fn_out.class = "FinalAnswer"
    /\ Parse(Wrap(Fence1, fn_out.text)).class = "FinalAnswer"
    /\ Parse(Wrap(Fence3, fn_out.text)).class = "FinalAnswer"

----------------------------------------------------------------------------
(* counting passes, generations and tool invocations *)

\* this step starts a loop pass
PassStarts == pc = "loop" /\ pc' = "gen"

\* C28: in every step that starts a loop pass the history has exactly
\* `iteration` entries; it is empty exactly when the pass is the first, and
\* the prompt built is the "History ... What is the next step?" variant
\* exactly when the pass is not the first.
C28_HistoryLength ==
    [][PassStarts
         => (/\ Len(iteration_history) = iteration
             /\ (iteration_history = <<>> <=> passes' = 1)
             /\ (EndsWithText(current_prompt_parts'[3].text, <<"What is the next step?">>)
                    <=> passes' > 1)
             /\ (EndsWithText(current_prompt_parts'[3].text, <<"What is the first step?">>)
                    <=> passes' = 1))]_vars

C28_Witness ==
    /\ pc = "gen"
    /\ passes = 4
    /\ iteration = 3
    /\ Len(iteration_history) = 3
    /\ current_prompt_parts[3].entries = iteration_history
    /\ EndsWithText(current_prompt_parts[3].text, <<"What is the next step?">>)

\* C29: there are never more than max_iterations generation calls, one per
\* pass; a tool invocation is made only in the step in which the generation
\* of the pass returns a FUNCTION_CALL, one at most per pass, so there are
\* never more tool invocations than generation calls.
C29_CallCounts ==
    /\ [](/\ gens <= max_iterations
          /\ gens = passes
          /\ Len(calls) <= gens
          /\ (pc = "tool" => Len(calls) <= passes)
          /\ (pc = "gen" => Len(calls) <= passes - 1))
    /\ [][calls' # calls
          => /\ Len(calls') = Len(calls) + 1
             /\ pc = "gen"
             /\ pc' = "tool"
             /\ event'.kind = "gen_returned"
             /\ Classify(Completion(event')) = "FunctionCall"]_vars

C29_Witness ==
    /\ pc = "done"
    /\ gens = max_iterations
    /\ Len(calls) = max_iterations
    /\ terminal_state = "BudgetExhausted"

\* this step ends the pass with a FINAL_ANSWER or with a failure of the
\* generation, of the binding or of the tool call
TerminalResponse ==
    \/ event'.kind \in {"gen_raised", "tool_raised"}
    \/ /\ event'.kind = "gen_returned"
       /\ event'.shape = "text"
       /\ \/ Classify(Completion(event')) = "FinalAnswer"
          \/ (Classify(Completion(event')) = "FunctionCall" /\ calls' = calls)

\* a max-iterations entry is the last entry of h, and no entry follows a
\* terminal one
WellEnded(h) ==
    \A i \in 1..Len(h) :
        /\ (h[i].kind = "MaxIterations" => i = Len(h))
        /\ (h[i].kind \in BreakKinds => i = Len(h))

\* C30: on the last permitted pass (iteration = max_iterations - 1) a
\* FINAL_ANSWER ends the run Succeeded and a generation, binding or
\* transport failure ends it Failed, with that entry the last one and no
\* max-iterations entry; in every history a max-iterations entry occurs at
\* most once and only at the end, and nothing follows a terminal entry.
C30_LastPass ==
    /\ [][(pc = "gen" \/ pc = "tool") /\ iteration = max_iterations - 1 /\ TerminalResponse
          => /\ pc' = "finally"
             /\ terminal_state' =
                    IF Last(iteration_history').kind = "FinalAnswer"
                    THEN "Succeeded" ELSE "Failed"
             /\ Last(iteration_history').kind \in BreakKinds
             /\ Len(iteration_history') = Len(iteration_history) + 1
             /\ \A i \in 1..Len(iteration_history') :
                    iteration_history'[i].kind # "MaxIterations"]_vars
    /\ [][(terminal_state = "Succeeded" \/ terminal_state = "Failed")
          => terminal_state' = terminal_state]_vars
    /\ [](WellEnded(iteration_history) /\ WellEnded(emitted))

C30_Witness ==
    /\ pc = "done"
    /\ passes = max_iterations
    /\ terminal_state = "Succeeded"
    /\ Len(emitted) = max_iterations
    /\ Last(emitted).kind = "FinalAnswer"

----------------------------------------------------------------------------
(* the outcome text of a tool call *)

\* the position of the first item of content that has a text, 0 for none
RECURSIVE FirstTextual(_, _)
FirstTextual(content, i) ==
    IF i > Len(content) THEN 0
    ELSE IF content[i].type = "text" THEN i
    ELSE FirstTextual(content, i + 1)

\* C23: the outcome text of a tool call is the text of the first item of
\* the result that has a text, whatever its position, and the sentinel
\* "Tool executed, no standard text result." only when no item has one.
C23_FirstTextual ==
    [][event'.kind = "tool_returned" /\ pc = "tool"
       => LET content == event'.content
              i == FirstTextual(content, 1)
          IN  /\ last_response'.set
              /\ last_response'.text =
                    IF i # 0 THEN content[i].text
                    ELSE <<"Tool", " ", "executed", ",", " ", "no", " ", "standard",
                           " ", "text", " ", "result", ".">>]_vars

----------------------------------------------------------------------------
(* the history as the only carrier of context *)

\* the prompt written from the lines of a history and from nothing else
PromptFrom(lines) ==
    IF lines = <<>>
    THEN << <<"system_prompt">>,
            <<NL, "User Query", ":", " ", "user_query">>,
            <<NL, "What is the first step?">> >>
    ELSE << <<"system_prompt">>,
            <<NL, "User Query", ":", " ", "user_query">>,
            <<NL, "History", ":", NL>> \o Join(lines, <<NL>>)
                \o <<NL, NL, "What is the next step?">> >>

\* the branch a pass takes on what the model or the tool host hands it:
\* where main() goes next and the kind of the line it writes, from the
\* client, its catalog and the response alone
Branch(c, ts, e) ==
    IF e.kind = "gen_raised" THEN [pc |-> "finally", kind |-> "LLMFailed"]
    ELSE IF e.kind = "tool_raised" THEN [pc |-> "finally", kind |-> "ClientError"]
    ELSE IF e.kind = "tool_returned" THEN [pc |-> "loop", kind |-> "Called"]
    ELSE LET x == ExtractText(c, Response(e.shape, e.text))
             t == CleanResponse(x.text)
         IN  IF ~x.ok THEN [pc |-> "finally", kind |-> "LLMFailed"]
             ELSE IF Classify(t) = "FinalAnswer"
                  THEN [pc |-> "finally", kind |-> "FinalAnswer"]
             ELSE IF Classify(t) = "Malformed"
                  THEN [pc |-> "loop", kind |-> "Unexpected"]
             ELSE IF Bind(c, ts, func_name(t), params(t)).ok
                  THEN [pc |-> "tool", kind |-> "none"]
             ELSE [pc |-> "finally", kind |-> "ClientError"]

\* the terminal state after a line of this kind, the n-th of the history
StateAfter(kind, n) ==
    IF kind = "FinalAnswer" THEN "Succeeded"
    ELSE IF kind \in {"LLMFailed", "ClientError"} THEN "Failed"
    ELSE IF kind \in {"Called", "Unexpected"} /\ n >= max_iterations
         THEN "BudgetExhausted"
    ELSE "None"

\* C26: the prompt of a pass is a function of the history alone, and the
\* transition of a pass (where the loop goes, the line it writes and its
\* label, the terminal state) is a function of the client's catalog, the
\* history and the response alone: no other state, the stored
\* last_response in particular, has a part in either.
C26_HistoryOnly ==
    /\ [][PassStarts => PartTexts' = PromptFrom(Lines)]_vars
    /\ [][event'.kind \in {"gen_raised", "gen_returned", "tool_raised", "tool_returned"}
          => LET b == Branch(client, tools, event')
                 n == Len(iteration_history) + 1
             IN  /\ pc' = b.pc
                 /\ terminal_state' = StateAfter(b.kind, n)
                 /\ (b.kind = "none" => iteration_history' = iteration_history)
                 /\ (b.kind # "none"
                       => /\ SubSeq(iteration_history', 1, n - 1) = iteration_history
                          /\ iteration_history'[n].kind = b.kind
                          /\ iteration_history'[n].label = n)]_vars

\* a pass starts on a history whose only line shows the first ResultCap
\* symbols of a longer result: the stored last_response has its last symbol,
\* the history and the prompt do not
C26_Witness ==
    /\ pc = "gen"
    /\ passes = 2
    /\ Len(iteration_history) = 1
    /\ iteration_history[1].kind = "Called"
    /\ last_response.set
    /\ last_response.text = LongResult2
    /\ ~Contains(current_prompt_parts[3].text, <<"y">>)
    /\ PartTexts = PromptFrom(Lines)

----------------------------------------------------------------------------
(* the tool list *)

FailsToRender(c, tool) ==
    \/ tool.inputSchema.st # "set"
    \/ (c = "gmail" /\ tool.description.st = "none")

\* C22: a descriptor that fails to render gives, at its own position n, the
\* line "n. Error processing tool " followed by its name, or by "unknown"
\* when it has none; the list still has one line per descriptor, the line
\* of every other descriptor is the one it has when no descriptor fails,
\* and main() goes on to the loop.
C22_Placeholder ==
    fn_out.times > 0
      => /\ pc = "rendered"
         /\ Len(fn_out.lines) = Len(fn_in)
         /\ \A n \in 1..Len(fn_in) :
               IF FailsToRender(client, fn_in[n])
               THEN fn_out.lines[n]
                      = Str(n) \o <<".", " ", "Error processing tool", " ">>
                          \o (IF fn_in[n].name.st = "set" THEN fn_in[n].name.v
                              ELSE <<"unknown">>)
               ELSE /\ ~Contains(fn_out.lines[n], <<"Error processing tool">>)
                    /\ fn_out.lines[n]
                         = tools_description(
                               client,
                               [j \in 1..Len(fn_in) |->
                                   IF FailsToRender(client, fn_in[j])
                                   THEN Descriptor(Attr(<<"open_keynote">>), Attr(<<>>),
                                                   Attr(<<"Open", " ", "Keynote">>))
                                   ELSE fn_in[j]])[n]

C22_Witness ==
    /\ fn_out.times = 1
    /\ client = "gmail"
    /\ Len(fn_in) = 3
    /\ fn_in[2].inputSchema.st = "none"
    /\ fn_in[2].name.st = "absent"
    /\ fn_out.lines[2] = <<"2", ".", " ", "Error processing tool", " ", "unknown">>
    /\ fn_out.lines[3]
         = <<"3", ".", " ", "list_emails", "(", "query", ":", " ", "string", ",", " ",
             "max_results", ":", " ", "integer", ")", " ", "-", " ", "List", " ", "emails">>

----------------------------------------------------------------------------
(* the payload of a FUNCTION_CALL *)

\* the number of symbols c in text
RECURSIVE Count(_, _)
Count(text, c) ==
    IF text = <<>> THEN 0
    ELSE (IF Head(text) = c THEN 1 ELSE 0) + Count(Tail(text), c)

\* the fields of the payload, tool name first
Fields == <<fn_out.func_name>> \o fn_out.params

\* C24: the payload of a FUNCTION_CALL is what follows the first colon,
\* split at every "|", each field trimmed: when no intended field holds a
\* "|", the tool name is the first intended field and the tokens are the
\* others, in order, trimmed, a colon inside a field kept; every "|" inside
\* an intended field makes one token more.
C24_PayloadSplit ==
    fn_out.done
      => /\ Len(Fields) = Len(fn_in) + Count(Join(fn_in, <<>>), "|")
         /\ \A i \in 1..Len(Fields) : Trimmed(Fields[i]) /\ Count(Fields[i], "|") = 0
         /\ Count(Join(Fields, <<>>), ":") = Count(Join(fn_in, <<>>), ":")
         /\ (Count(Join(fn_in, <<>>), "|") = 0
               => /\ fn_out.func_name = Strip(fn_in[1])
                  /\ fn_out.params = [i \in 1..(Len(fn_in) - 1) |-> Strip(fn_in[i + 1])])

C24_Witness ==
    /\ fn_out.done
    /\ fn_in = << <<" ", "x", " ">>, <<"a", "|", "b">>, <<"a", ":", "b">> >>
    /\ fn_out.func_name = <<"x">>
    /\ fn_out.params = << <<"a">>, <<"b">>, <<"a", ":", "b">> >>

----------------------------------------------------------------------------
(* binding *)

\* the uniform rule: the token count must be the declared parameter count,
\* then the i-th token is bound to the i-th declared parameter (a string
\* parameter takes the token as it is)
UniformRule(props, ps) ==
    IF Len(ps) # Len(props) THEN [ok |-> FALSE, arguments |-> <<>>]
    ELSE [ok |-> TRUE,
          arguments |-> [i \in 1..Len(props) |-> Arg(props[i].name, StrVal(ps[i]))]]

\* C25: for send_email, declared as (to, subject, body), the Gmail client's
\* hard-coded mapping gives for every token list what the uniform rule
\* gives: a failure exactly when the rule fails, and else the same bound
\* arguments.
C25_SendEmailUniform ==
    fn_out.times > 0 /\ client = "gmail" /\ fn_in.name = <<"send_email">>
      => LET u == UniformRule(<<Prop("to", "string"), Prop("subject", "string"),
                                Prop("body", "string")>>, fn_in.params)
         IN  /\ Declared(<<"send_email">>)
                  = <<Prop("to", "string"), Prop("subject", "string"),
                      Prop("body", "string")>>
             /\ fn_out.result.ok = u.ok
             /\ fn_out.result.arguments = u.arguments

C25_Witness ==
    /\ fn_out.times = 1
    /\ client = "gmail"
    /\ fn_in.name = <<"send_email">>
    /\ fn_in.params = << <<"abc">>, <<"7">>, <<"-", "1", "2">> >>
    /\ fn_out.result.ok
    /\ fn_out.result.arguments
         = <<Arg("to", StrVal(<<"abc">>)), Arg("subject", StrVal(<<"7">>)),
             Arg("body", StrVal(<<"-", "1", "2">>))>>

----------------------------------------------------------------------------
(* labels *)

\* the entries of h from position n on
From(h, n) == SubSeq(h, n, Len(h))

\* C31: every entry a step of the k-th pass appends is labelled k and its
\* line begins "Iteration k: "; the labels of a history never decrease; a
\* max-iterations entry is labelled max_iterations, as is the entry before
\* it, the one of the last pass.
C31_Labels ==
    /\ [][(pc = "gen" \/ pc = "tool") /\ iteration_history' # iteration_history
          => \A i \in (Len(iteration_history) + 1)..Len(iteration_history') :
                /\ iteration_history'[i].label = passes
                /\ StartsWith(iteration_history'[i].line,
                              <<"Iteration", " ">> \o Str(passes) \o <<":", " ">>)]_vars
    /\ [](\A i \in 1..Len(iteration_history) :
             /\ (i > 1 => iteration_history[i - 1].label <= iteration_history[i].label)
             /\ (iteration_history[i].kind = "MaxIterations"
                   => /\ iteration_history[i].label = max_iterations
                      /\ i > 1
                      /\ iteration_history[i - 1].label = max_iterations
                      /\ passes = max_iterations))

C31_Witness ==
    /\ pc = "finally"
    /\ Len(iteration_history) = max_iterations + 1
    /\ [i \in 1..Len(iteration_history) |-> iteration_history[i].label]
         = <<1, 2, 3, 4, 5, 5>>
    /\ iteration_history[5].kind = "Called"
    /\ StartsWith(iteration_history[6].line, <<"Iteration", " ", "5", ":", " ">>)

----------------------------------------------------------------------------
(* a second run *)

\* the globals as reset_state() leaves them
Reset == iteration = 0 /\ iteration_history = <<>> /\ last_response = NoResponse

\* C32: whichever way main() ends, its finally block leaves iteration = 0, an
\* empty history and no last response; a second run in the same process
\* therefore starts from those values, its history holds only its own
\* entries, and it has all max_iterations passes to make.
C32_Reset ==
    /\ [][pc = "finally" => pc' = "done" /\ Reset']_vars
    /\ [](pc = "done" => Reset)
    /\ [][pc = "done" => runs' = runs + 1 /\ pc' = "start" /\ Reset']_vars
    /\ [](runs > 1 =>
            /\ (pc = "start" => Reset)
            /\ iteration <= passes
            /\ (pc = "loop" /\ passes < max_iterations => iteration < max_iterations)
            /\ \A i \in 1..Len(iteration_history) :
                  iteration_history[i].label <= passes)

\* the second run has begun its last pass
C32_Witness ==
    /\ runs = 2
    /\ pc = "gen"
    /\ passes = max_iterations
    /\ Len(iteration_history) = max_iterations - 1
    /\ iteration_history[1].label = 1

====
